---------------------------- MODULE Spec2Model ----------------------------
(***************************************************************************)
(* State machine of the map-browsing single page application.              *)
(*                                                                         *)
(* Two variants of the root component exist in the repository:             *)
(*   bilingual : src/unnamed/part_000     (language selector, separate     *)
(*               searchMarkers / clickMarker, zoom 14, setTimeout)         *)
(*   baseline  : src/frontend/src/App.js  (one markers list, zoom 12)      *)
(* The variable `variant` is fixed by Init and selects which root          *)
(* component is mounted; the SearchBox code is the same in both.           *)
(*                                                                         *)
(* Numbers: a latitude or longitude is an integer count of micro-degrees   *)
(* (1e-6 degree); toFixed(4) output is an integer count of 1e-4 degree.    *)
(* JavaScript strings are tuples of tokens; the empty string is << >>.     *)
(* A value that may be null is a tuple of length 0 (null) or 1.            *)
(* Display strings are written without their accents.                     *)
(***************************************************************************)
EXTENDS Integers, Sequences, FiniteSets, TLC

VARIABLES
    variant,            \* which root component is mounted
    language,           \* App state (bilingual)
    mapCenter,          \* App state
    mapZoom,            \* App state
    selectedLocation,   \* App state, null or {lat,lng,name}
    clickedLocation,    \* App state, null or {lat,lng}
    currentLayer,       \* App state {id,name,url}
    searchMarkers,      \* App state (bilingual)
    clickMarker,        \* App state (bilingual), null or marker
    key,                \* App state (bilingual)
    markers,            \* App state (baseline)
    searchTerm,         \* SearchBox state
    isLoading,          \* SearchBox state
    pending,            \* outstanding geocoding requests (suspended handleSearch calls)
    timeouts,           \* callbacks scheduled by setTimeout, in firing order
    now,                \* the value Date.now() returns
    mapInstance,        \* identity of the mounted MapContainer element
    alerted,            \* messages passed to alert() by the last step
    last,               \* the event handled by the last step, with its input
    inserted,           \* history: every marker prepended to the capped list, oldest first
    uiEvents            \* history: number of user inputs and clock advances so far

vars == << variant, language, mapCenter, mapZoom, selectedLocation, clickedLocation,
           currentLayer, searchMarkers, clickMarker, key, markers, searchTerm,
           isLoading, pending, timeouts, now, mapInstance, alerted, last, inserted,
           uiEvents >>

appVars == << language, mapCenter, mapZoom, selectedLocation, clickedLocation,
              currentLayer, searchMarkers, clickMarker, key, markers, timeouts,
              mapInstance, inserted >>

searchBoxVars == << searchTerm, isLoading, pending >>

-----------------------------------------------------------------------------
(* Bounds of the exploration *)

MaxInserted == 6
MaxUiEvents == 2
MaxTimeouts == 2

-----------------------------------------------------------------------------
(* Values *)

null == << >>
Some(x) == << x >>

Variants == {"bilingual", "baseline"}
Languages == {"fr", "en"}

translations ==
    [l \in Languages |->
        IF l = "fr"
        THEN [ streetView |-> "Vue Carte", satelliteView |-> "Vue Satellite",
               terrainView |-> "Vue Terrain",
               locationNotFound |-> "Lieu non trouve. Essayez avec un autre terme de recherche.",
               searchError |-> "Erreur lors de la recherche. Veuillez reessayer.",
               clickMarker |-> "Clic: ", searchMarker |-> "Recherche: " ]
        ELSE [ streetView |-> "Street View", satelliteView |-> "Satellite View",
               terrainView |-> "Terrain View",
               locationNotFound |-> "Location not found. Try with another search term.",
               searchError |-> "Search error. Please try again.",
               clickMarker |-> "Click: ", searchMarker |-> "Search: " ]]

OsmFrUrl == "https://{s}.tile.openstreetmap.fr/osmfr/{z}/{x}/{y}.png"
OsmOrgUrl == "https://{s}.tile.openstreetmap.org/{z}/{x}/{y}.png"
EsriUrl == "https://server.arcgisonline.com/ArcGIS/rest/services/World_Imagery/MapServer/tile/{z}/{y}/{x}"
TopoUrl == "https://{s}.tile.opentopomap.org/{z}/{x}/{y}.png"

FranceCenter == << 46603354, 1888334 >>
DefaultZoom == 6
SearchZoom == 14
base_SearchZoom == 12
MarkerCap == 4

initialLayer == [ id |-> "street", name |-> "Vue Carte", url |-> OsmOrgUrl ]

(* MapControls.mapLayers as rendered for a language (bilingual). *)
mapLayers(lang) ==
    { [ id |-> "street", name |-> translations[lang].streetView,
        url |-> IF lang = "fr" THEN OsmFrUrl ELSE OsmOrgUrl ],
      [ id |-> "satellite", name |-> translations[lang].satelliteView, url |-> EsriUrl ],
      [ id |-> "terrain", name |-> translations[lang].terrainView, url |-> TopoUrl ] }

(* MapControls.mapLayers (baseline). *)
base_mapLayers ==
    { [ id |-> "street", name |-> "Vue Carte", url |-> OsmOrgUrl ],
      [ id |-> "satellite", name |-> "Vue Satellite", url |-> EsriUrl ],
      [ id |-> "terrain", name |-> "Vue Terrain", url |-> TopoUrl ] }

-----------------------------------------------------------------------------
(* Inputs from the environment *)

(* Text the user may have in the search input. *)
Terms == { << >>, << " " >>, << " ", "P", "a", "r", "i", "s" >> }

(* Elements the geocoder may return first; lat and lon are decimal strings,
   written << sign, whole degrees, millionths >>. *)
GeocoderResults ==
    { [ lat |-> << 1, 48, 856600 >>, lon |-> << 1, 2, 352200 >>,
        display_name |-> << "Paris, France" >> ],
      [ lat |-> << 1, 40, 712776 >>, lon |-> << -1, 74, 5974 >>,
        display_name |-> << >> ] }

(* Coordinates of map clicks (e.latlng). *)
ClickLatLngs ==
    { [ lat |-> 51507351, lng |-> -127758 ], [ lat |-> -33868820, lng |-> 151209290 ] }


-----------------------------------------------------------------------------
(* Pure functions *)

Min(a, b) == IF a < b THEN a ELSE b

(* parseFloat of a decimal string << sign, whole, millionths >>, in micro-degrees. *)
parseFloat(s) == s[1] * (s[2] * 1000000 + s[3])

(* Number.prototype.toFixed(4) of a value in micro-degrees: the nearest multiple
   of 1e-4, ties away from zero, as a count of 1e-4. *)
toFixed4(x) ==
    LET a == IF x < 0 THEN -x ELSE x
        r == (a + 50) \div 100
    IN  IF x < 0 THEN -r ELSE r

(* Variation of trim: white space is kept. *)
trim_keepsSpaces(s) == s

(* String.prototype.trim *)
RECURSIVE trimStart(_)
trimStart(s) == IF s # << >> /\ Head(s) = " " THEN trimStart(Tail(s)) ELSE s

RECURSIVE trimEnd(_)
trimEnd(s) ==
    IF s # << >> /\ s[Len(s)] = " " THEN trimEnd(SubSeq(s, 1, Len(s) - 1)) ELSE s

trim(s) == trimEnd(trimStart(s))

(* Array.prototype.slice(0, end) *)
slice0(a, end) == SubSeq(a, 1, Min(end, Len(a)))

(* Variation of prependCapped: the slice keeps one marker too many. *)
prependCapped_keepsFive(newMarker, prev) == << newMarker >> \o slice0(prev, MarkerCap + 1)

(* [newMarker, ...prev.slice(0, 4)] *)
prependCapped(newMarker, prev) == << newMarker >> \o slice0(prev, MarkerCap)

(* `${t.searchMarker}${location.lat.toFixed(4)}, ${location.lng.toFixed(4)}` *)
searchLabel(t, location) ==
    << t.searchMarker, toFixed4(location.lat), ", ", toFixed4(location.lng) >>

(* `${t.clickMarker}${location.lat.toFixed(4)}, ${location.lng.toFixed(4)}` *)
clickLabel(t, location) ==
    << t.clickMarker, toFixed4(location.lat), ", ", toFixed4(location.lng) >>

(* `Recherche: ${location.lat.toFixed(4)}, ${location.lng.toFixed(4)}` *)
base_searchLabel(location) ==
    << "Recherche: ", toFixed4(location.lat), ", ", toFixed4(location.lng) >>

(* `Clic: ${location.lat.toFixed(4)}, ${location.lng.toFixed(4)}` *)
base_clickLabel(location) ==
    << "Clic: ", toFixed4(location.lat), ", ", toFixed4(location.lng) >>

(* Variation of searchResult: latitude and longitude are taken from the wrong
   fields. *)
searchResult_swapped(result) ==
    [ lat |-> parseFloat(result.lon), lng |-> parseFloat(result.lat),
      name |-> result.display_name ]

(* The object SearchBox passes to onSearch for the first element of the response. *)
searchResult(result) ==
    [ lat |-> parseFloat(result.lat), lng |-> parseFloat(result.lon),
      name |-> result.display_name ]

(* The key attribute of the MapContainer element App renders when its key state
   is k: the element is written without a key attribute. *)
MapContainerKey(k) == null

(* React keeps a rendered element's instance while its key attribute is unchanged
   and mounts a new instance when it changes. *)
reconcile(instance, oldKey, newKey) ==
    IF MapContainerKey(oldKey) = MapContainerKey(newKey) THEN instance ELSE instance + 1

(* allMarkers = [...searchMarkers, ...(clickMarker ? [clickMarker] : [])] *)
allMarkers == searchMarkers \o clickMarker

(* Variation of InfoPanel: the clicked location is preferred. *)
InfoPanel_prefersClicked ==
    IF selectedLocation = null /\ clickedLocation = null THEN null
    ELSE IF clickedLocation # null THEN clickedLocation ELSE selectedLocation

(* The location InfoPanel shows: null when it renders nothing. *)
InfoPanel ==
    IF selectedLocation = null /\ clickedLocation = null THEN null
    ELSE IF selectedLocation # null THEN selectedLocation ELSE clickedLocation

-----------------------------------------------------------------------------
(* Initial state: the useState initial values *)

Init ==
    /\ variant \in Variants
    /\ language = "fr"
    /\ mapCenter = FranceCenter
    /\ mapZoom = DefaultZoom
    /\ selectedLocation = null
    /\ clickedLocation = null
    /\ currentLayer = initialLayer
    /\ searchMarkers = << >>
    /\ clickMarker = null
    /\ key = 0
    /\ markers = << >>
    /\ searchTerm = << >>
    /\ isLoading = FALSE
    /\ pending = << >>
    /\ timeouts = << >>
    /\ now = 0
    /\ mapInstance = 0
    /\ alerted = << >>
    /\ last = << "mount" >>
    /\ inserted = << >>
    /\ uiEvents = 0

-----------------------------------------------------------------------------
(* Root component, bilingual variant: the effect of each handler on App state *)

(* handleSearch as created by a render whose translation table was t. *)
handleSearch(location, t) ==
    LET newMarker ==
            [ id |-> now,
              position |-> << location.lat, location.lng >>,
              name |-> IF location.name # << >> THEN location.name
                       ELSE searchLabel(t, location) ]
    IN  /\ mapCenter' = << location.lat, location.lng >>
        /\ mapZoom' = SearchZoom
        /\ selectedLocation' = Some(location)
        /\ searchMarkers' = prependCapped(newMarker, searchMarkers)
        /\ timeouts' = Append(timeouts, location)
        /\ inserted' = Append(inserted, newMarker)
        /\ UNCHANGED << language, clickedLocation, currentLayer, clickMarker, key,
                        markers, mapInstance >>

(* The callback handleSearch passes to setTimeout. *)
handleSearchTimeout(location) ==
    /\ mapCenter' = << location.lat, location.lng >>
    /\ mapZoom' = SearchZoom
    /\ UNCHANGED << language, selectedLocation, clickedLocation, currentLayer,
                    searchMarkers, clickMarker, key, markers, mapInstance, inserted >>

(* Variation of handleLocationClick: the click marker goes into the search
   marker list, as in the baseline. *)
handleLocationClick_sharesList(location, t) ==
    LET newMarker ==
            [ id |-> now,
              position |-> << location.lat, location.lng >>,
              name |-> clickLabel(t, location) ]
    IN  /\ clickedLocation' = Some(location)
        /\ clickMarker' = Some(newMarker)
        /\ searchMarkers' = prependCapped(newMarker, searchMarkers)
        /\ UNCHANGED << language, mapCenter, mapZoom, selectedLocation, currentLayer,
                        key, markers, timeouts, mapInstance, inserted >>

(* Variation of handleLocationClick: the new click marker is added to the ones
   already there. *)
handleLocationClick_accumulates(location, t) ==
    LET newMarker ==
            [ id |-> now,
              position |-> << location.lat, location.lng >>,
              name |-> clickLabel(t, location) ]
    IN  /\ clickedLocation' = Some(location)
        /\ clickMarker' = << newMarker >> \o clickMarker
        /\ UNCHANGED << language, mapCenter, mapZoom, selectedLocation, currentLayer,
                        searchMarkers, key, markers, timeouts, mapInstance, inserted >>

(* Variation of handleLocationClick: an existing click marker is kept where it
   is. *)
handleLocationClick_keepsMarker(location, t) ==
    LET newMarker ==
            [ id |-> now,
              position |-> << location.lat, location.lng >>,
              name |-> clickLabel(t, location) ]
    IN  /\ clickedLocation' = Some(location)
        /\ clickMarker' = IF clickMarker = null THEN Some(newMarker) ELSE clickMarker
        /\ UNCHANGED << language, mapCenter, mapZoom, selectedLocation, currentLayer,
                        searchMarkers, key, markers, timeouts, mapInstance, inserted >>

(* handleLocationClick as created by a render whose translation table was t. *)
handleLocationClick(location, t) ==
    LET newMarker ==
            [ id |-> now,
              position |-> << location.lat, location.lng >>,
              name |-> clickLabel(t, location) ]
    IN  /\ clickedLocation' = Some(location)
        /\ clickMarker' = Some(newMarker)
        /\ UNCHANGED << language, mapCenter, mapZoom, selectedLocation, currentLayer,
                        searchMarkers, key, markers, timeouts, mapInstance, inserted >>

(* Variation of handleLayerChange: selecting a layer also resets the zoom. *)
handleLayerChange_resetsZoom(layer) ==
    /\ currentLayer' = layer
    /\ mapZoom' = DefaultZoom
    /\ UNCHANGED << language, mapCenter, selectedLocation, clickedLocation,
                    searchMarkers, clickMarker, key, markers, timeouts, mapInstance,
                    inserted >>

handleLayerChange(layer) ==
    /\ currentLayer' = layer
    /\ UNCHANGED << language, mapCenter, mapZoom, selectedLocation, clickedLocation,
                    searchMarkers, clickMarker, key, markers, timeouts, mapInstance,
                    inserted >>

(* Variation of handleLanguageChange: the synthesized labels of the search markers
   are rewritten in the new language. *)
handleLanguageChange_relabels(newLanguage) ==
    /\ language' = newLanguage
    /\ currentLayer' =
          [ id |-> currentLayer.id,
            name |-> IF currentLayer.id = "street"
                     THEN translations[newLanguage].streetView
                     ELSE IF currentLayer.id = "satellite"
                          THEN translations[newLanguage].satelliteView
                          ELSE translations[newLanguage].terrainView,
            url |-> IF currentLayer.id = "street"
                    THEN (IF newLanguage = "fr" THEN OsmFrUrl ELSE OsmOrgUrl)
                    ELSE currentLayer.url ]
    /\ key' = key + 1
    /\ mapInstance' = reconcile(mapInstance, key, key')
    /\ searchMarkers' =
          [ j \in 1..Len(searchMarkers) |->
              [ searchMarkers[j] EXCEPT
                  !.name = IF @ # << >> /\ @[1] = translations[language].searchMarker
                           THEN << translations[newLanguage].searchMarker >> \o Tail(@)
                           ELSE @ ] ]
    /\ UNCHANGED << mapCenter, mapZoom, selectedLocation, clickedLocation,
                    clickMarker, markers, timeouts, inserted >>

(* Variation of handleCenterMap: the reset also empties the search markers. *)
handleCenterMap_clearsMarkers ==
    /\ mapCenter' = FranceCenter
    /\ mapZoom' = DefaultZoom
    /\ selectedLocation' = null
    /\ clickedLocation' = null
    /\ searchMarkers' = << >>
    /\ UNCHANGED << language, currentLayer, clickMarker, key, markers,
                    timeouts, mapInstance, inserted >>

handleCenterMap ==
    /\ mapCenter' = FranceCenter
    /\ mapZoom' = DefaultZoom
    /\ selectedLocation' = null
    /\ clickedLocation' = null
    /\ UNCHANGED << language, currentLayer, searchMarkers, clickMarker, key, markers,
                    timeouts, mapInstance, inserted >>

handleLanguageChange(newLanguage) ==
    /\ language' = newLanguage
    /\ currentLayer' =
          [ id |-> currentLayer.id,
            name |-> IF currentLayer.id = "street"
                     THEN translations[newLanguage].streetView
                     ELSE IF currentLayer.id = "satellite"
                          THEN translations[newLanguage].satelliteView
                          ELSE translations[newLanguage].terrainView,
            url |-> IF currentLayer.id = "street"
                    THEN (IF newLanguage = "fr" THEN OsmFrUrl ELSE OsmOrgUrl)
                    ELSE currentLayer.url ]
    /\ key' = key + 1
    /\ mapInstance' = reconcile(mapInstance, key, key')
    /\ UNCHANGED << mapCenter, mapZoom, selectedLocation, clickedLocation,
                    searchMarkers, clickMarker, markers, timeouts, inserted >>

-----------------------------------------------------------------------------
(* Root component, baseline variant *)

base_handleSearch(location) ==
    LET newMarker ==
            [ id |-> now,
              position |-> << location.lat, location.lng >>,
              name |-> IF location.name # << >> THEN location.name
                       ELSE base_searchLabel(location) ]
    IN  /\ mapCenter' = << location.lat, location.lng >>
        /\ mapZoom' = base_SearchZoom
        /\ selectedLocation' = Some(location)
        /\ markers' = prependCapped(newMarker, markers)
        /\ inserted' = Append(inserted, newMarker)
        /\ UNCHANGED << language, clickedLocation, currentLayer, searchMarkers,
                        clickMarker, key, timeouts, mapInstance >>

(* Variation of base_handleLocationClick: the click marker is put behind the
   markers kept. *)
base_handleLocationClick_appends(location) ==
    LET newMarker ==
            [ id |-> now,
              position |-> << location.lat, location.lng >>,
              name |-> base_clickLabel(location) ]
    IN  /\ clickedLocation' = Some(location)
        /\ markers' = Append(slice0(markers, MarkerCap), newMarker)
        /\ inserted' = Append(inserted, newMarker)
        /\ UNCHANGED << language, mapCenter, mapZoom, selectedLocation, currentLayer,
                        searchMarkers, clickMarker, key, timeouts, mapInstance >>

base_handleLocationClick(location) ==
    LET newMarker ==
            [ id |-> now,
              position |-> << location.lat, location.lng >>,
              name |-> base_clickLabel(location) ]
    IN  /\ clickedLocation' = Some(location)
        /\ markers' = prependCapped(newMarker, markers)
        /\ inserted' = Append(inserted, newMarker)
        /\ UNCHANGED << language, mapCenter, mapZoom, selectedLocation, currentLayer,
                        searchMarkers, clickMarker, key, timeouts, mapInstance >>

base_handleLayerChange(layer) ==
    /\ currentLayer' = layer
    /\ UNCHANGED << language, mapCenter, mapZoom, selectedLocation, clickedLocation,
                    searchMarkers, clickMarker, key, markers, timeouts, mapInstance,
                    inserted >>

base_handleCenterMap ==
    /\ mapCenter' = FranceCenter
    /\ mapZoom' = DefaultZoom
    /\ selectedLocation' = null
    /\ clickedLocation' = null
    /\ UNCHANGED << language, currentLayer, searchMarkers, clickMarker, key, markers,
                    timeouts, mapInstance, inserted >>

-----------------------------------------------------------------------------
(* What a step leaves alone *)

envUnchanged == UNCHANGED << variant, now >>

appUnchanged == UNCHANGED appVars

searchBoxUnchanged == UNCHANGED searchBoxVars

(* The translation table of the current render. *)
t == translations[language]

(* The onSearch prop of a SearchBox.handleSearch closure created by a render in
   language lang: App.handleSearch of that render. *)
onSearch(location, lang) ==
    IF variant = "bilingual"
    THEN handleSearch(location, translations[lang])
    ELSE base_handleSearch(location)

(* alert(t.locationNotFound) of a closure created by a render in language lang. *)
notFoundNotice(lang) ==
    IF variant = "bilingual"
    THEN translations[lang].locationNotFound
    ELSE "Lieu non trouve. Essayez avec un autre terme de recherche."

(* alert(t.searchError) of a closure created by a render in language lang. *)
searchErrorNotice(lang) ==
    IF variant = "bilingual"
    THEN translations[lang].searchError
    ELSE "Erreur lors de la recherche. Veuillez reessayer."

(* pending without its i-th request *)
without(i) == SubSeq(pending, 1, i - 1) \o SubSeq(pending, i + 1, Len(pending))

-----------------------------------------------------------------------------
(* SearchBox *)

(* The search input's onChange; the input is disabled while isLoading. *)
setSearchTerm(value) ==
    /\ ~isLoading
    /\ value # searchTerm
    /\ uiEvents < MaxUiEvents
    /\ searchTerm' = value
    /\ uiEvents' = uiEvents + 1
    /\ alerted' = << >>
    /\ last' = << "setSearchTerm", value >>
    /\ UNCHANGED << isLoading, pending >>
    /\ appUnchanged /\ envUnchanged

(* Variation of formEnabled: the controls are not disabled while loading. *)
formEnabled_always == TRUE

(* Whether the form's controls let the user submit it. *)
formEnabled == ~isLoading

(* The form's onSubmit, up to the first await: the request is issued by a closure
   of the current render. *)
submit ==
    /\ formEnabled
    /\ IF trim(searchTerm) = << >>
       THEN UNCHANGED << isLoading, pending >>
       ELSE /\ isLoading' = TRUE
            /\ pending' = Append(pending, [ language |-> language, term |-> searchTerm,
                                            awaiting |-> "fetch" ])
    /\ alerted' = << >>
    /\ last' = << "submit", searchTerm >>
    /\ UNCHANGED << searchTerm, uiEvents >>
    /\ appUnchanged /\ envUnchanged

(* await fetch(...) resolves: handleSearch goes on to await response.json(). *)
fetchResolved(i) ==
    /\ pending[i].awaiting = "fetch"
    /\ pending' = [ pending EXCEPT ![i].awaiting = "json" ]
    /\ alerted' = << >>
    /\ last' = << "fetchResolved" >>
    /\ UNCHANGED << searchTerm, isLoading, uiEvents >>
    /\ appUnchanged /\ envUnchanged

(* Variation of searchFailed: the rejection leaves the handler without running
   the finally block. *)
searchFailed_keepsLoading(i) ==
    /\ alerted' = << searchErrorNotice(pending[i].language) >>
    /\ pending' = without(i)
    /\ last' = << "searchFailed" >>
    /\ UNCHANGED << searchTerm, isLoading, uiEvents >>
    /\ appUnchanged /\ envUnchanged

(* await fetch(...) or await response.json() rejects: catch, then finally. *)
searchFailed(i) ==
    /\ alerted' = << searchErrorNotice(pending[i].language) >>
    /\ isLoading' = FALSE
    /\ pending' = without(i)
    /\ last' = << "searchFailed" >>
    /\ UNCHANGED << searchTerm, uiEvents >>
    /\ appUnchanged /\ envUnchanged

(* Variation of searchNotFound: the empty result is also reported by the catch
   block. *)
searchNotFound_alsoCaught(i) ==
    /\ pending[i].awaiting = "json"
    /\ alerted' = << notFoundNotice(pending[i].language),
                     searchErrorNotice(pending[i].language) >>
    /\ isLoading' = FALSE
    /\ pending' = without(i)
    /\ last' = << "searchNotFound" >>
    /\ UNCHANGED << searchTerm, uiEvents >>
    /\ appUnchanged /\ envUnchanged

(* await response.json() resolves with data: else branch (data is empty), then
   finally. *)
searchNotFound(i) ==
    /\ pending[i].awaiting = "json"
    /\ alerted' = << notFoundNotice(pending[i].language) >>
    /\ isLoading' = FALSE
    /\ pending' = without(i)
    /\ last' = << "searchNotFound" >>
    /\ UNCHANGED << searchTerm, uiEvents >>
    /\ appUnchanged /\ envUnchanged

(* await response.json() resolves with data whose first element is result:
   onSearch, then finally. *)
searchFound(i, result) ==
    /\ pending[i].awaiting = "json"
    /\ Len(inserted) < MaxInserted
    /\ Len(timeouts) < MaxTimeouts
    /\ onSearch(searchResult(result), pending[i].language)
    /\ isLoading' = FALSE
    /\ pending' = without(i)
    /\ alerted' = << >>
    /\ last' = << "onSearch", result >>
    /\ UNCHANGED << searchTerm, uiEvents >>
    /\ envUnchanged

-----------------------------------------------------------------------------
(* The other events *)

(* Variation of MapEventHandler: clicks are ignored while a search is running. *)
MapEventHandler_whileIdle(latlng) ==
    /\ ~isLoading
    /\ uiEvents < MaxUiEvents
    /\ IF variant = "bilingual"
       THEN handleLocationClick(latlng, t)
       ELSE Len(inserted) < MaxInserted /\ base_handleLocationClick(latlng)
    /\ uiEvents' = uiEvents + 1
    /\ alerted' = << >>
    /\ last' = << "onLocationClick", latlng >>
    /\ searchBoxUnchanged /\ envUnchanged

(* MapEventHandler: a click on the map. *)
MapEventHandler(latlng) ==
    /\ uiEvents < MaxUiEvents
    /\ IF variant = "bilingual"
       THEN handleLocationClick(latlng, t)
       ELSE Len(inserted) < MaxInserted /\ base_handleLocationClick(latlng)
    /\ uiEvents' = uiEvents + 1
    /\ alerted' = << >>
    /\ last' = << "onLocationClick", latlng >>
    /\ searchBoxUnchanged /\ envUnchanged

(* MapControls: a click on an entry of the layers menu. *)
onLayerChange(layer) ==
    /\ uiEvents < MaxUiEvents
    /\ IF variant = "bilingual"
       THEN layer \in mapLayers(language) /\ handleLayerChange(layer)
       ELSE layer \in base_mapLayers /\ base_handleLayerChange(layer)
    /\ uiEvents' = uiEvents + 1
    /\ alerted' = << >>
    /\ last' = << "onLayerChange", layer >>
    /\ searchBoxUnchanged /\ envUnchanged

(* MapControls: a click on the center button. *)
onCenterMap ==
    /\ uiEvents < MaxUiEvents
    /\ IF variant = "bilingual" THEN handleCenterMap ELSE base_handleCenterMap
    /\ uiEvents' = uiEvents + 1
    /\ alerted' = << >>
    /\ last' = << "onCenterMap" >>
    /\ searchBoxUnchanged /\ envUnchanged

(* LanguageSelector: the select's onChange with another option. *)
onLanguageChange(newLanguage) ==
    /\ variant = "bilingual"
    /\ newLanguage # language
    /\ uiEvents < MaxUiEvents
    /\ handleLanguageChange(newLanguage)
    /\ uiEvents' = uiEvents + 1
    /\ alerted' = << >>
    /\ last' = << "onLanguageChange", newLanguage >>
    /\ searchBoxUnchanged /\ envUnchanged

(* The oldest setTimeout callback of handleSearch runs. *)
timeout ==
    /\ timeouts # << >>
    /\ handleSearchTimeout(Head(timeouts))
    /\ timeouts' = Tail(timeouts)
    /\ alerted' = << >>
    /\ last' = << "timeout", Head(timeouts) >>
    /\ UNCHANGED uiEvents
    /\ searchBoxUnchanged /\ envUnchanged

(* The clock Date.now() reads advances. *)
tick ==
    /\ uiEvents < MaxUiEvents
    /\ now' = now + 1
    /\ uiEvents' = uiEvents + 1
    /\ alerted' = << >>
    /\ last' = << "tick" >>
    /\ UNCHANGED variant
    /\ appUnchanged /\ searchBoxUnchanged

AllLayers == UNION { mapLayers(l) : l \in Languages } \cup base_mapLayers

Next ==
    \/ \E value \in Terms : setSearchTerm(value)
    \/ submit
    \/ \E i \in 1..Len(pending) : fetchResolved(i)
    \/ \E i \in 1..Len(pending) : searchFailed(i)
    \/ \E i \in 1..Len(pending) : searchNotFound(i)
    \/ \E i \in 1..Len(pending), result \in GeocoderResults : searchFound(i, result)
    \/ \E latlng \in ClickLatLngs : MapEventHandler(latlng)
    \/ \E layer \in AllLayers : onLayerChange(layer)
    \/ onCenterMap
    \/ \E newLanguage \in Languages : onLanguageChange(newLanguage)
    \/ timeout
    \/ tick

Spec == Init /\ [][Next]_vars

(* The continuation of handleSearch for request i: one of its awaits settles. *)
Response(i) ==
    \/ fetchResolved(i)
    \/ searchFailed(i)
    \/ searchNotFound(i)
    \/ \E result \in GeocoderResults : searchFound(i, result)

(* The program under the assumption that the promises handleSearch awaits settle:
   an outstanding request does not wait for its response forever. *)
SpecFair == Spec /\ WF_vars(\E i \in 1..Len(pending) : Response(i))

-----------------------------------------------------------------------------
(* Properties *)

(* The capped marker list of the mounted variant. *)
cappedList == IF variant = "bilingual" THEN searchMarkers ELSE markers

(* The number a decimal string << sign, whole, millionths >> denotes, in micro-degrees. *)
valueOf(d) == IF d[1] < 0 THEN 0 - (d[2] * 1000000 + d[3]) ELSE d[2] * 1000000 + d[3]

(* r (a count of 1e-4 degree) is a nearest 4-decimal value of x (micro-degrees). *)
isNearest4(x, r) == 100 * r - x <= 50 /\ x - 100 * r <= 50

(* label is prefix followed by "lat, lng" with 4 decimals of coordinate c. *)
isCoordinateLabel(label, prefix, c) ==
    /\ Len(label) = 4
    /\ label[1] = prefix
    /\ isNearest4(c[1], label[2])
    /\ label[3] = ", "
    /\ isNearest4(c[2], label[4])

(* the last k elements of s, newest first *)
RECURSIVE newestFirst(_, _)
newestFirst(s, k) ==
    IF k = 0 \/ s = << >> THEN << >>
    ELSE << s[Len(s)] >> \o newestFirst(SubSeq(s, 1, Len(s) - 1), k - 1)

(* C1: handling a successful search response replaces the capped list by the new
   marker followed by the first four markers of the prior list, in their order
   (new length min(5, prior + 1), newest first); the list never exceeds 5. *)
C1_SearchPrepends ==
    /\ [](Len(cappedList) <= 5)
    /\ [][ last'[1] = "onSearch" =>
             LET prior == cappedList
                 new == IF variant = "bilingual" THEN searchMarkers' ELSE markers'
                 c == << valueOf(last'[2].lat), valueOf(last'[2].lon) >>
             IN  /\ Len(new) = Min(5, Len(prior) + 1)
                 /\ new[1].position = c
                 /\ new[1].id = now
                 /\ \A j \in 2..Len(new) : new[j] = prior[j - 1] ]_vars

(* C1 witness: a search response was handled while the list already held 5. *)
C1_Witness ==
    /\ last[1] = "onSearch"
    /\ Len(inserted) >= 6
    /\ Len(cappedList) = 5
    /\ cappedList[1] # cappedList[5]

(* C2: bilingual: once 6 or more searches have succeeded, searchMarkers is exactly
   the markers of the 5 most recent successful searches, most recent first,
   whatever other events were interleaved. *)
C2_FiveMostRecent ==
    (variant = "bilingual" /\ Len(inserted) >= 6) =>
        searchMarkers = newestFirst(inserted, 5)

(* C2 witness: 6 successful searches with a map click and a clock advance or user
   input among them. *)
C2_Witness ==
    /\ variant = "bilingual"
    /\ Len(inserted) >= 6
    /\ clickMarker # null
    /\ searchMarkers[1].position # searchMarkers[2].position

(* C3: the center-map action yields center (46.603354, 1.888334), zoom 6, no
   selected and no clicked location, and keeps the marker lists, the active layer
   and the language. *)
C3_CenterMap ==
    [][ last'[1] = "onCenterMap" =>
          /\ mapCenter' = << 46603354, 1888334 >>
          /\ mapZoom' = 6
          /\ selectedLocation' = null
          /\ clickedLocation' = null
          /\ UNCHANGED << searchMarkers, clickMarker, markers, currentLayer, language >>
      ]_vars

(* C3 witness: the center-map action ran after a search had moved the view and
   left a marker. *)
C3_Witness ==
    /\ last[1] = "onCenterMap"
    /\ cappedList # << >>
    /\ mapCenter = << 46603354, 1888334 >>
    /\ timeouts = << >>

(* C4: an empty result set and a failed request each surface exactly one notice
   (of their kind), leave every ViewState field as it was, and do not invoke the
   root search handler. *)
C4_NoticeOnly ==
    [][ last'[1] \in {"searchNotFound", "searchFailed"} =>
          /\ Len(alerted') = 1
          /\ last'[1] = "searchNotFound" =>
                alerted'[1] \in { translations[l].locationNotFound : l \in Languages }
          /\ last'[1] = "searchFailed" =>
                alerted'[1] \in { translations[l].searchError : l \in Languages }
          /\ UNCHANGED << mapCenter, mapZoom, currentLayer, searchMarkers, clickMarker,
                          markers, selectedLocation, clickedLocation >>
          /\ UNCHANGED << inserted, timeouts >>
      ]_vars

(* C4 witness: a NotFound notice was surfaced while a location was selected. *)
C4_Witness ==
    /\ last[1] = "searchNotFound"
    /\ Len(alerted) = 1
    /\ selectedLocation # null
    /\ cappedList # << >>

(* C5: at most one geocoding request is outstanding, and the loading flag is true
   exactly while one is. *)
C5_SingleRequest ==
    /\ Len(pending) <= 1
    /\ isLoading <=> pending # << >>

(* C5 witness: a request is outstanding, its response not yet parsed. *)
C5_Witness ==
    /\ isLoading
    /\ Len(pending) = 1
    /\ pending[1].awaiting = "json"
    /\ last[1] # "fetchResolved"

(* C6: handling a successful response for coordinate c and name n sets center c,
   zoom 14 (bilingual) or 12 (baseline) and selectedLocation (c, n), and adds one
   marker at c labelled n, or the synthesized search label when n is empty;
   clickedLocation and the active layer are unchanged. *)
C6_SearchSuccess ==
    [][ last'[1] = "onSearch" =>
          LET c == << valueOf(last'[2].lat), valueOf(last'[2].lon) >>
              n == last'[2].display_name
              old == cappedList
              new == IF variant = "bilingual" THEN searchMarkers' ELSE markers'
          IN  /\ mapCenter' = c
              /\ mapZoom' = IF variant = "bilingual" THEN 14 ELSE 12
              /\ selectedLocation' = << [ lat |-> c[1], lng |-> c[2], name |-> n ] >>
              /\ new[1].position = c
              /\ IF n # << >>
                 THEN new[1].name = n
                 ELSE \E prefix \in IF variant = "bilingual"
                                    THEN {"Recherche: ", "Search: "}
                                    ELSE {"Recherche: "} :
                         isCoordinateLabel(new[1].name, prefix, c)
              /\ Tail(new) = SubSeq(old, 1, Len(new) - 1)
              /\ clickMarker' = clickMarker
              /\ variant = "bilingual" => markers' = markers
              /\ variant = "baseline" => searchMarkers' = searchMarkers
              /\ UNCHANGED << clickedLocation, currentLayer >>
      ]_vars

(* C6 witness: the response "48.8566", "2.3522", "Paris, France" was handled in the
   bilingual variant. *)
C6_Witness ==
    /\ variant = "bilingual"
    /\ last = << "onSearch", [ lat |-> << 1, 48, 856600 >>, lon |-> << 1, 2, 352200 >>,
                               display_name |-> << "Paris, France" >> ] >>
    /\ mapCenter = << 48856600, 2352200 >>
    /\ mapZoom = 14
    /\ searchMarkers[1].name = << "Paris, France" >>
    /\ Len(searchMarkers) = 1

(* C7: selecting a tile layer sets the active layer to the selected descriptor and
   changes nothing else. *)
C7_LayerChange ==
    [][ last'[1] = "onLayerChange" =>
          /\ currentLayer' = last'[2]
          /\ UNCHANGED << mapCenter, mapZoom, searchMarkers, clickMarker, markers,
                          selectedLocation, clickedLocation, language, key >>
      ]_vars

(* C7 witness: the satellite layer was selected while the view was on a searched
   location with its marker. *)
C7_Witness ==
    /\ last[1] = "onLayerChange"
    /\ currentLayer.id = "satellite"
    /\ cappedList # << >>
    /\ selectedLocation # null
    /\ mapZoom # 6

(* C8: bilingual: a switch to language L sets the language to L, keeps the active
   layer's id, sets its display name to L's name for that id, and changes its URL
   template if and only if the layer is street (then to L's street tile source);
   center, zoom, marker lists and both locations are unchanged. *)
C8_LanguageSwitch ==
    [][ last'[1] = "onLanguageChange" =>
          LET L == last'[2]
              id == currentLayer.id
          IN  /\ language' = L
              /\ currentLayer'.id = id
              /\ currentLayer'.name =
                    IF L = "fr"
                    THEN (IF id = "street" THEN "Vue Carte"
                          ELSE IF id = "satellite" THEN "Vue Satellite" ELSE "Vue Terrain")
                    ELSE (IF id = "street" THEN "Street View"
                          ELSE IF id = "satellite" THEN "Satellite View" ELSE "Terrain View")
              /\ (currentLayer'.url # currentLayer.url) <=> (id = "street")
              /\ id = "street" =>
                    currentLayer'.url = IF L = "fr" THEN OsmFrUrl ELSE OsmOrgUrl
              /\ UNCHANGED << mapCenter, mapZoom, searchMarkers, clickMarker, markers,
                              selectedLocation, clickedLocation >>
      ]_vars

(* C9: bilingual: every language switch remounts the map widget: the key of the
   MapContainer element changes, so a new instance is mounted. *)
C9_Remount ==
    [][ last'[1] = "onLanguageChange" =>
          /\ MapContainerKey(key') # MapContainerKey(key)
          /\ mapInstance' # mapInstance
      ]_vars

(* C10: bilingual: a map click at c sets clickedLocation to c and replaces
   clickMarker by one new marker at c with the synthesized click label; searchMarkers,
   center, zoom, selectedLocation and the active layer are unchanged; clickMarker
   never holds more than one marker and at most 5 + 1 markers are displayed. *)
C10_ClickMarker ==
    /\ [](variant = "bilingual" =>
            /\ Len(clickMarker) <= 1
            /\ Len(searchMarkers) <= 5
            /\ Len(allMarkers) <= 6)
    /\ [][ (variant = "bilingual" /\ last'[1] = "onLocationClick") =>
             LET c == << last'[2].lat, last'[2].lng >>
             IN  /\ clickedLocation' = << last'[2] >>
                 /\ Len(clickMarker') = 1
                 /\ clickMarker'[1].position = c
                 /\ clickMarker'[1].id = now
                 /\ \E prefix \in {"Clic: ", "Click: "} :
                       isCoordinateLabel(clickMarker'[1].name, prefix, c)
                 /\ UNCHANGED << searchMarkers, mapCenter, mapZoom, selectedLocation,
                                 currentLayer >>
       ]_vars

(* C10 witness: a click was handled while 5 search markers were displayed. *)
C10_Witness ==
    /\ variant = "bilingual"
    /\ last[1] = "onLocationClick"
    /\ Len(searchMarkers) = 5
    /\ Len(allMarkers) = 6
    /\ clickedLocation # null

(* C11: baseline: searches and clicks share one list of capacity 5; the list holds
   exactly the markers of the min(5, k) most recent marker-creating events, most
   recent first, whatever their kinds. *)
C11_SharedList ==
    variant = "baseline" =>
        /\ Len(markers) = Min(5, Len(inserted))
        /\ markers = newestFirst(inserted, 5)

(* C11 witness: a click marker, inserted first, was evicted by five later searches. *)
C11_Witness ==
    /\ variant = "baseline"
    /\ Len(inserted) >= 6
    /\ inserted[1].name[1] = "Clic: "
    /\ Len(markers) = 5
    /\ \A j \in 1..5 : markers[j].name[1] # "Clic: "

(* C12: InfoPanel renders nothing exactly when selectedLocation and clickedLocation
   are both absent; otherwise it shows selectedLocation when present and
   clickedLocation only when selectedLocation is absent. *)
C12_InfoPanel ==
    /\ InfoPanel = null <=> (selectedLocation = null /\ clickedLocation = null)
    /\ selectedLocation # null => InfoPanel = selectedLocation
    /\ (selectedLocation = null /\ clickedLocation # null) => InfoPanel = clickedLocation

(* C12 witness: both a selected and a clicked location are present. *)
C12_Witness ==
    /\ selectedLocation # null
    /\ clickedLocation # null
    /\ InfoPanel = selectedLocation
    /\ << selectedLocation[1].lat, selectedLocation[1].lng >>
          # << clickedLocation[1].lat, clickedLocation[1].lng >>

(* The coordinate of a location InfoPanel shows; null when it shows none. *)
coordinateOf(shown) ==
    IF shown = null THEN null ELSE << << shown[1].lat, shown[1].lng >> >>

(* C13: the coordinate InfoPanel displays is that of the most recent event among
   successful searches and map clicks since the last center-map action: a search or
   a click makes the panel show its coordinate, center-map empties the panel, and
   no other step changes what is shown. *)
C13_MostRecentShown ==
    [][ /\ last'[1] = "onSearch" =>
              coordinateOf(InfoPanel') =
                  << << valueOf(last'[2].lat), valueOf(last'[2].lon) >> >>
        /\ last'[1] = "onLocationClick" =>
              coordinateOf(InfoPanel') = << << last'[2].lat, last'[2].lng >> >>
        /\ last'[1] = "onCenterMap" => InfoPanel' = null
        /\ last'[1] \notin {"onSearch", "onLocationClick", "onCenterMap"} =>
              InfoPanel' = InfoPanel
      ]_vars

(* The markers held in state, in rendering order. *)
heldMarkers == IF variant = "bilingual" THEN allMarkers ELSE markers

(* C14: the ids of all markers held in state (baseline: markers; bilingual:
   searchMarkers together with clickMarker) are pairwise distinct, also when two
   markers are created while the clock has not advanced. *)
C14_UniqueIds ==
    \A i, j \in 1..Len(heldMarkers) :
        i # j => heldMarkers[i].id # heldMarkers[j].id

(* The fields of the view state the root container owns. *)
ViewState ==
    << mapCenter, mapZoom, currentLayer, searchMarkers, clickMarker,
       selectedLocation, clickedLocation >>

(* C15: in the bilingual variant the view state changes only in the step that
   handles a user event or a geocoding response, and center and zoom change only
   when a successful search response or the center-map action is handled, so that
   the center and zoom set by center-map hold until the next successful search. *)
C15_NoLateTransition ==
    [][ variant = "bilingual" =>
          /\ ViewState' # ViewState =>
                last'[1] \in {"onSearch", "onLocationClick", "onLayerChange",
                              "onLanguageChange", "onCenterMap"}
          /\ << mapCenter, mapZoom >>' # << mapCenter, mapZoom >> =>
                last'[1] \in {"onSearch", "onCenterMap"}
      ]_vars

(* C16: every request is terminal once its response arrives. Provided the
   response arrives, the loading flag returns to false and the form can be
   submitted again; each of the three outcomes (result found, empty result,
   failure) ends the request with the loading flag false and the search text as
   the user typed it; and a request is issued only by a submit. *)
C16_Terminal ==
    /\ isLoading ~> (~isLoading /\ formEnabled)
    /\ [][ /\ last'[1] \in {"onSearch", "searchNotFound", "searchFailed"} =>
                /\ ~isLoading' /\ formEnabled'
                /\ pending' = << >>
                /\ searchTerm' = searchTerm
           /\ Len(pending') > Len(pending) => last'[1] = "submit"
         ]_vars

C16_Witness ==
    /\ last = << "searchFailed" >>
    /\ ~isLoading /\ formEnabled
    /\ pending = << >>
    /\ searchTerm = << " ", "P", "a", "r", "i", "s" >>

(* Whether a text consists of white space only (the empty text included). *)
isBlank(text) == \A k \in 1..Len(text) : text[k] = " "

(* C17: a geocoding request is issued only for non-empty trimmed text. A submit
   with empty or whitespace-only text issues no request, shows no notice, leaves
   the loading flag false and changes no field of the view state; a submit with
   any other text issues exactly one request, for that text. *)
C17_SubmitTrimmed ==
    [][ last'[1] = "submit" =>
          IF isBlank(last'[2])
          THEN /\ pending' = pending
               /\ ~isLoading /\ ~isLoading'
               /\ alerted' = << >>
               /\ ViewState' = ViewState
               /\ UNCHANGED << markers, timeouts >>
          ELSE /\ Len(pending') = Len(pending) + 1
               /\ SubSeq(pending', 1, Len(pending)) = pending
               /\ pending'[Len(pending')].term = last'[2]
               /\ isLoading'
      ]_vars

C17_Witness ==
    /\ last = << "submit", << " " >> >>
    /\ pending = << >>
    /\ ~isLoading
    /\ alerted = << >>

(* Whether list next is list prev with one marker at coordinate c put in front,
   cut to five markers. *)
addsOneMarker(prev, next, c) ==
    /\ Len(next) = Min(5, Len(prev) + 1)
    /\ next[1].position = c
    /\ \A j \in 2..Len(next) : next[j] = prev[j - 1]

(* C18: a map click is never suppressed, also while a request is outstanding, and
   clicks and search responses do not lose each other's effects: each click adds
   exactly one marker at its coordinate (to the shared list of the baseline, as the
   single click marker of the bilingual variant, whose search markers it leaves
   alone), and each successful response adds exactly one marker to the search
   marker list and leaves the click marker alone. *)
C18_ClicksAndSearches ==
    /\ [](\A latlng \in ClickLatLngs :
            (/\ uiEvents < MaxUiEvents
             /\ variant = "baseline" => Len(inserted) < MaxInserted)
                => ENABLED MapEventHandler(latlng))
    /\ [][ /\ last'[1] = "onLocationClick" =>
                LET c == << last'[2].lat, last'[2].lng >>
                IN  IF variant = "baseline"
                    THEN addsOneMarker(markers, markers', c)
                    ELSE /\ clickMarker' # null
                         /\ clickMarker'[1].position = c
                         /\ searchMarkers' = searchMarkers
           /\ last'[1] = "onSearch" =>
                /\ addsOneMarker(cappedList, cappedList',
                                 << valueOf(last'[2].lat), valueOf(last'[2].lon) >>)
                /\ clickMarker' = clickMarker
         ]_vars

C18_Witness ==
    /\ last[1] = "onLocationClick"
    /\ isLoading
    /\ Len(pending) = 1
    /\ pending[1].awaiting = "json"
    /\ IF variant = "baseline"
       THEN markers # << >> /\ markers[1].position = << last[2].lat, last[2].lng >>
       ELSE clickMarker # null

(* C19: a marker is never mutated after creation and leaves the capped list only
   by the capacity rule. A step that inserts a marker moves every earlier marker,
   unchanged, one position down and drops only the one that was fifth; every other
   step (layer change, language change, center-map included) leaves the list as it
   is; the click marker of the bilingual variant changes only when a click replaces
   it. *)
C19_MarkersImmutable ==
    [][ IF last'[1] = "onSearch"
           \/ (variant = "baseline" /\ last'[1] = "onLocationClick")
        THEN /\ Len(cappedList') = Min(5, Len(cappedList) + 1)
             /\ \A j \in 1..Len(cappedList) :
                   j <= 4 => cappedList'[j + 1] = cappedList[j]
             /\ clickMarker' = clickMarker
        ELSE /\ cappedList' = cappedList
             /\ clickMarker' # clickMarker =>
                   variant = "bilingual" /\ last'[1] = "onLocationClick"
      ]_vars

C19_Witness ==
    /\ last = << "onLanguageChange", "en" >>
    /\ language = "en"
    /\ searchMarkers # << >>
    /\ searchMarkers[1].name[1] = translations["fr"].searchMarker

(* C20: in the bilingual variant the notice of a request (not found, search
   error) and a synthesized search label are in the language that is current when
   the response is handled, also when the language was switched while the request
   was outstanding. *)
C20_CurrentLanguage ==
    [][ variant = "bilingual" =>
          /\ last'[1] = "searchNotFound" =>
                alerted' = << translations[language'].locationNotFound >>
          /\ last'[1] = "searchFailed" =>
                alerted' = << translations[language'].searchError >>
          /\ (last'[1] = "onSearch" /\ last'[2].display_name = << >>) =>
                searchMarkers'[1].name[1] = translations[language'].searchMarker
      ]_vars

(* The display name of the layer with the given id in language lang. *)
layerName(lang, id) ==
    IF id = "street" THEN translations[lang].streetView
    ELSE IF id = "satellite" THEN translations[lang].satelliteView
    ELSE translations[lang].terrainView

(* C21: in the bilingual variant the active layer is consistent with the current
   language in every reachable state, the initial one included: its name is the
   current language's name for its id, and a street layer has the street tile
   source of the current language. *)
C21_LayerConsistent ==
    variant = "bilingual" =>
        /\ currentLayer.name = layerName(language, currentLayer.id)
        /\ currentLayer.id = "street" =>
              currentLayer.url = IF language = "fr" THEN OsmFrUrl ELSE OsmOrgUrl

(* C22: in the bilingual variant, whenever selectedLocation is present the map is
   centered on its coordinate at zoom 14 and the first search marker is the marker
   at that coordinate, for any number of successive successful searches. *)
C22_SelectedCentered ==
    (variant = "bilingual" /\ selectedLocation # null) =>
        LET c == << selectedLocation[1].lat, selectedLocation[1].lng >>
        IN  /\ mapCenter = c
            /\ mapZoom = SearchZoom
            /\ searchMarkers # << >>
            /\ searchMarkers[1].position = c

(* C23: in the bilingual variant, whenever clickedLocation is present, clickMarker
   is present at the same coordinate; the converse does not hold, because the
   center-map action clears clickedLocation and leaves the click marker on the
   map. *)
C23_ClickedHasMarker ==
    /\ []((variant = "bilingual" /\ clickedLocation # null) =>
            /\ clickMarker # null
            /\ clickMarker[1].position =
                  << clickedLocation[1].lat, clickedLocation[1].lng >>)
    /\ [][ (variant = "bilingual" /\ last'[1] = "onCenterMap") =>
              /\ clickedLocation' = null
              /\ clickMarker' = clickMarker
         ]_vars

(* C23 witness: center-map was handled after a click; the click marker is still
   there and clickedLocation is gone. *)
C23_Witness ==
    /\ variant = "bilingual"
    /\ last = << "onCenterMap" >>
    /\ clickedLocation = null
    /\ clickMarker # null

=============================================================================
